---- MODULE Spec2Model ----
(***************************************************************************)
(* Model of the command dispatch and error-normalization core of the      *)
(* golem-cloud-cli: the conversions of the per-resource backend errors    *)
(* into GolemError (model.rs), the enumerations' parsers (model.rs), the  *)
(* ProjectRef <-> ProjectRefArgs conversions (model.rs), the              *)
(* authentication context (clients.rs) and the gateway deployment         *)
(* handler (gateway/deployment.rs).                                       *)
(*                                                                         *)
(* Strings are TLA+ strings and format!/join are modelled with \o.  The   *)
(* payloads whose types come from other crates (reqwest::Error,           *)
(* HeaderValue errors, StatusCode) are held as their Display text, which  *)
(* is all that format!("{x}") reads of them.  Uuids are small naturals.   *)
(***************************************************************************)
EXTENDS Integers, Sequences, FiniteSets, TLC

VARIABLES
    auth,       \* the CloudAuthentication built for this invocation
    last,       \* the latest library operation applied: its input and its result
    pc,         \* position of DeploymentHandlerLive::handle
    command,    \* the DeploymentSubcommand being handled
    resolved,   \* the local `project_id` of handle, once resolved
    calls,      \* the calls handle has awaited so far, in order, with their results
    outcome     \* the value handle returned

vars == <<auth, last, pc, command, resolved, calls, outcome>>

libVars == <<auth, last>>
handlerVars == <<pc, command, resolved, calls, outcome>>

----------------------------------------------------------------------------
(* Bounds of the model *)

NumTexts == 1
MaxErrors == 2
NumUuids == 2

(* The backend-supplied texts: the empty string and NumTexts others. *)
Texts == {""} \cup {"t" \o ToString(i) : i \in 1..NumTexts}

(* Display text of the status codes the clients do not map. *)
StatusCodes == {"418 I'm a teapot", "502 Bad Gateway"}

Uuids == 1..NumUuids

(* Vec<String> of at most MaxErrors field errors. *)
ErrorLists == UNION {[1..n -> Texts] : n \in 0..MaxErrors}

None == <<>>
Some(x) == <<x>>

Ok(v) == [ok |-> TRUE, val |-> v]
Err(e) == [ok |-> FALSE, err |-> e]

----------------------------------------------------------------------------
(* model.rs: GolemError, GolemResult *)

GolemError(s) == [message |-> s]

GolemResultOk(payload) == [variant |-> "Ok", payload |-> payload]

GolemResultErr(s) == Err(GolemError(s))

(* Vec<String>::join(sep) *)
RECURSIVE Join(_, _)
Join(v, sep) ==
    IF Len(v) = 0 THEN ""
    ELSE IF Len(v) = 1 THEN v[1]
    ELSE v[1] \o sep \o Join(Tail(v), sep)

----------------------------------------------------------------------------
(* The closed error sets of the backend clients, as the exhaustive matches *)
(* of model.rs enumerate them.                                             *)

RequestFailure(err) == [tag |-> "RequestFailure", err |-> err]
InvalidHeaderValue(err) == [tag |-> "InvalidHeaderValue", err |-> err]
UnexpectedStatus(sc) == [tag |-> "UnexpectedStatus", sc |-> sc]
Status400(errors) == [tag |-> "Status400", errors |-> errors]
Status401(error) == [tag |-> "Status401", error |-> error]
Status403(error) == [tag |-> "Status403", error |-> error]
Status404(message) == [tag |-> "Status404", message |-> message]
Status409(component_id) == [tag |-> "Status409", component_id |-> component_id]
Status500(error) == [tag |-> "Status500", error |-> error]
Status504 == [tag |-> "Status504"]

TransportErrors ==
    {RequestFailure(e) : e \in Texts}
        \cup {InvalidHeaderValue(e) : e \in Texts}
        \cup {UnexpectedStatus(sc) : sc \in StatusCodes}

AccountErrors ==
    TransportErrors
        \cup {Status404(m) : m \in Texts}
        \cup {Status400(es) : es \in ErrorLists}
        \cup {Status500(e) : e \in Texts}

TokenErrors ==
    TransportErrors
        \cup {Status404(m) : m \in Texts}
        \cup {Status400(es) : es \in ErrorLists}
        \cup {Status500(e) : e \in Texts}

ComponentErrors ==
    TransportErrors
        \cup {Status504}
        \cup {Status404(m) : m \in Texts}
        \cup {Status403(e) : e \in Texts}
        \cup {Status400(es) : es \in ErrorLists}
        \cup {Status500(e) : e \in Texts}
        \cup {Status409(c) : c \in Texts}

LoginErrors ==
    TransportErrors
        \cup {Status403(e) : e \in Texts}
        \cup {Status500(e) : e \in Texts}
        \cup {Status401(e) : e \in Texts}

ProjectErrors ==
    TransportErrors
        \cup {Status404(m) : m \in Texts}
        \cup {Status400(es) : es \in ErrorLists}
        \cup {Status403(e) : e \in Texts}
        \cup {Status500(e) : e \in Texts}

GrantErrors ==
    TransportErrors
        \cup {Status404(m) : m \in Texts}
        \cup {Status400(es) : es \in ErrorLists}
        \cup {Status500(e) : e \in Texts}

ProjectPolicyErrors ==
    TransportErrors
        \cup {Status404(m) : m \in Texts}
        \cup {Status400(es) : es \in ErrorLists}
        \cup {Status403(e) : e \in Texts}
        \cup {Status500(e) : e \in Texts}

ProjectGrantErrors ==
    TransportErrors
        \cup {Status404(m) : m \in Texts}
        \cup {Status400(es) : es \in ErrorLists}
        \cup {Status403(e) : e \in Texts}
        \cup {Status500(e) : e \in Texts}

----------------------------------------------------------------------------
(* model.rs: impl From<...Error> for GolemError.  A CASE without OTHER:   *)
(* TLC stops on a variant that no arm matches, as the compiler stops on a *)
(* match that is not exhaustive.                                           *)

FromAccountError(value) ==
    CASE value.tag = "RequestFailure" ->
            GolemError("Unexpected request failure: " \o value.err)
      [] value.tag = "InvalidHeaderValue" ->
            GolemError("Unexpected invalid header value: " \o value.err)
      [] value.tag = "UnexpectedStatus" ->
            GolemError("Unexpected status: " \o value.sc)
      [] value.tag = "Status404" ->
            GolemError("Not found: " \o value.message)
      [] value.tag = "Status400" ->
            LET msg == Join(value.errors, ", ")
            IN  GolemError("Invalid API call: " \o msg)
      [] value.tag = "Status500" ->
            GolemError("Internal server error: " \o value.error)

FromTokenError(value) ==
    CASE value.tag = "RequestFailure" ->
            GolemError("Unexpected request failure: " \o value.err)
      [] value.tag = "InvalidHeaderValue" ->
            GolemError("Unexpected invalid header value: " \o value.err)
      [] value.tag = "UnexpectedStatus" ->
            GolemError("Unexpected status: " \o value.sc)
      [] value.tag = "Status404" ->
            GolemError("Not found: " \o value.message)
      [] value.tag = "Status400" ->
            LET msg == Join(value.errors, ", ")
            IN  GolemError("Invalid API call: " \o msg)
      [] value.tag = "Status500" ->
            GolemError("Internal server error: " \o value.error)

FromComponentError(value) ==
    CASE value.tag = "RequestFailure" ->
            GolemError("Unexpected request failure: " \o value.err)
      [] value.tag = "InvalidHeaderValue" ->
            GolemError("Unexpected invalid header value: " \o value.err)
      [] value.tag = "UnexpectedStatus" ->
            GolemError("Unexpected status: " \o value.sc)
      [] value.tag = "Status504" ->
            GolemError("Gateway Timeout")
      [] value.tag = "Status404" ->
            GolemError(value.message)
      [] value.tag = "Status403" ->
            GolemError("Limit Exceeded: " \o value.error)
      [] value.tag = "Status400" ->
            LET msg == Join(value.errors, ", ")
            IN  GolemError("Invalid API call: " \o msg)
      [] value.tag = "Status500" ->
            GolemError("Internal server error: " \o value.error)
      [] value.tag = "Status409" ->
            GolemError(value.component_id \o " already exists")

(* indoc! strips the common indentation and keeps the final newline. *)
LoginRestrictedMessage ==
    "At the moment account creation is restricted.\n"
        \o "None of your verified emails is whitelisted.\n"
        \o "Please contact us to create an account.\n"

(* FromLoginError with the 403 arm written as the other families write it. *)
FromLoginErrorLimitExceeded(value) ==
    CASE value.tag = "RequestFailure" ->
            GolemError("Unexpected request failure: " \o value.err)
      [] value.tag = "InvalidHeaderValue" ->
            GolemError("Unexpected invalid header value: " \o value.err)
      [] value.tag = "UnexpectedStatus" ->
            GolemError("Unexpected status: " \o value.sc)
      [] value.tag = "Status403" ->
            GolemError("Limit Exceeded: " \o value.error)
      [] value.tag = "Status500" ->
            GolemError("Internal server error on Login: " \o value.error)
      [] value.tag = "Status401" ->
            GolemError("External service call error on Login: " \o value.error)

FromLoginError(value) ==
    CASE value.tag = "RequestFailure" ->
            GolemError("Unexpected request failure: " \o value.err)
      [] value.tag = "InvalidHeaderValue" ->
            GolemError("Unexpected invalid header value: " \o value.err)
      [] value.tag = "UnexpectedStatus" ->
            GolemError("Unexpected status: " \o value.sc)
      [] value.tag = "Status403" ->
            GolemError(LoginRestrictedMessage)
      [] value.tag = "Status500" ->
            GolemError("Internal server error on Login: " \o value.error)
      [] value.tag = "Status401" ->
            GolemError("External service call error on Login: " \o value.error)

FromProjectError(value) ==
    CASE value.tag = "RequestFailure" ->
            GolemError("Unexpected request failure: " \o value.err)
      [] value.tag = "InvalidHeaderValue" ->
            GolemError("Unexpected invalid header value: " \o value.err)
      [] value.tag = "UnexpectedStatus" ->
            GolemError("Unexpected status: " \o value.sc)
      [] value.tag = "Status404" ->
            GolemError("Not found: " \o value.message)
      [] value.tag = "Status400" ->
            LET msg == Join(value.errors, ", ")
            IN  GolemError("Invalid API call: " \o msg)
      [] value.tag = "Status403" ->
            GolemError("Limit Exceeded: " \o value.error)
      [] value.tag = "Status500" ->
            GolemError("Internal server error: " \o value.error)

FromGrantError(value) ==
    CASE value.tag = "RequestFailure" ->
            GolemError("Unexpected request failure: " \o value.err)
      [] value.tag = "InvalidHeaderValue" ->
            GolemError("Unexpected invalid header value: " \o value.err)
      [] value.tag = "UnexpectedStatus" ->
            GolemError("Unexpected status: " \o value.sc)
      [] value.tag = "Status404" ->
            GolemError("Not found: " \o value.message)
      [] value.tag = "Status400" ->
            LET msg == Join(value.errors, ", ")
            IN  GolemError("Invalid API call: " \o msg)
      [] value.tag = "Status500" ->
            GolemError("Internal server error: " \o value.error)

(* FromProjectPolicyError with the 403 arm carrying the text of the 500 arm. *)
FromProjectPolicyErrorSwapped403(value) ==
    CASE value.tag = "RequestFailure" ->
            GolemError("Unexpected request failure: " \o value.err)
      [] value.tag = "InvalidHeaderValue" ->
            GolemError("Unexpected invalid header value: " \o value.err)
      [] value.tag = "UnexpectedStatus" ->
            GolemError("Unexpected status: " \o value.sc)
      [] value.tag = "Status404" ->
            GolemError("Not found: " \o value.message)
      [] value.tag = "Status400" ->
            LET msg == Join(value.errors, ", ")
            IN  GolemError("Invalid API call: " \o msg)
      [] value.tag = "Status403" ->
            GolemError("Internal server error: " \o value.error)
      [] value.tag = "Status500" ->
            GolemError("Internal server error: " \o value.error)

FromProjectPolicyError(value) ==
    CASE value.tag = "RequestFailure" ->
            GolemError("Unexpected request failure: " \o value.err)
      [] value.tag = "InvalidHeaderValue" ->
            GolemError("Unexpected invalid header value: " \o value.err)
      [] value.tag = "UnexpectedStatus" ->
            GolemError("Unexpected status: " \o value.sc)
      [] value.tag = "Status404" ->
            GolemError("Not found: " \o value.message)
      [] value.tag = "Status400" ->
            LET msg == Join(value.errors, ", ")
            IN  GolemError("Invalid API call: " \o msg)
      [] value.tag = "Status403" ->
            GolemError("Limit Exceeded: " \o value.error)
      [] value.tag = "Status500" ->
            GolemError("Internal server error: " \o value.error)

FromProjectGrantError(value) ==
    CASE value.tag = "RequestFailure" ->
            GolemError("Unexpected request failure: " \o value.err)
      [] value.tag = "InvalidHeaderValue" ->
            GolemError("Unexpected invalid header value: " \o value.err)
      [] value.tag = "UnexpectedStatus" ->
            GolemError("Unexpected status: " \o value.sc)
      [] value.tag = "Status404" ->
            GolemError("Not found: " \o value.message)
      [] value.tag = "Status400" ->
            LET msg == Join(value.errors, ", ")
            IN  GolemError("Invalid API call: " \o msg)
      [] value.tag = "Status403" ->
            GolemError("Limit Exceeded: " \o value.error)
      [] value.tag = "Status500" ->
            GolemError("Internal server error: " \o value.error)

----------------------------------------------------------------------------
(* model.rs: Format, Role, ProjectAction.  A variant is written with its  *)
(* type ("Role::Admin"), so that Display and FromStr are conversions      *)
(* between two different things.                                           *)

(* Format::iter(), in declaration order (EnumIter) *)
FormatIter == <<"Format::Json", "Format::Yaml">>

DisplayFormat(self) ==
    CASE self = "Format::Json" -> "json"
      [] self = "Format::Yaml" -> "yaml"

(* format!("\"{x}\"") *)
Quoted(text) == "\"" \o text \o "\""

(* FormatFromStr matching the upper-case spellings too. *)
FormatFromStrAnyCase(s) ==
    CASE s \in {"json", "JSON"} -> Ok("Format::Json")
      [] s \in {"yaml", "YAML"} -> Ok("Format::Yaml")
      [] OTHER ->
            LET all == Join([i \in 1..Len(FormatIter) |->
                                Quoted(DisplayFormat(FormatIter[i]))], ", ")
            IN  Err("Unknown format: " \o s \o ". Expected one of " \o all)

FormatFromStr(s) ==
    CASE s = "json" -> Ok("Format::Json")
      [] s = "yaml" -> Ok("Format::Yaml")
      [] OTHER ->
            LET all == Join([i \in 1..Len(FormatIter) |->
                                Quoted(DisplayFormat(FormatIter[i]))], ", ")
            IN  Err("Unknown format: " \o s \o ". Expected one of " \o all)

(* Role::iter(), in declaration order *)
RoleIter ==
    <<"Role::Admin", "Role::WhitelistAdmin", "Role::MarketingAdmin",
      "Role::ViewProject", "Role::DeleteProject", "Role::CreateProject",
      "Role::InstanceServer">>

(* DisplayRole with the MarketingAdmin arm repeating the text above it. *)
DisplayRoleRepeated(self) ==
    CASE self = "Role::Admin" -> "Admin"
      [] self = "Role::WhitelistAdmin" -> "WhitelistAdmin"
      [] self = "Role::MarketingAdmin" -> "WhitelistAdmin"
      [] self = "Role::ViewProject" -> "ViewProject"
      [] self = "Role::DeleteProject" -> "DeleteProject"
      [] self = "Role::CreateProject" -> "CreateProject"
      [] self = "Role::InstanceServer" -> "InstanceServer"

DisplayRole(self) ==
    CASE self = "Role::Admin" -> "Admin"
      [] self = "Role::WhitelistAdmin" -> "WhitelistAdmin"
      [] self = "Role::MarketingAdmin" -> "MarketingAdmin"
      [] self = "Role::ViewProject" -> "ViewProject"
      [] self = "Role::DeleteProject" -> "DeleteProject"
      [] self = "Role::CreateProject" -> "CreateProject"
      [] self = "Role::InstanceServer" -> "InstanceServer"

(* RoleFromStr with a lower-case spelling of Admin accepted. *)
RoleFromStrLowerAdmin(s) ==
    CASE s \in {"Admin", "admin"} -> Ok("Role::Admin")
      [] s = "WhitelistAdmin" -> Ok("Role::WhitelistAdmin")
      [] s = "MarketingAdmin" -> Ok("Role::MarketingAdmin")
      [] s = "ViewProject" -> Ok("Role::ViewProject")
      [] s = "DeleteProject" -> Ok("Role::DeleteProject")
      [] s = "CreateProject" -> Ok("Role::CreateProject")
      [] s = "InstanceServer" -> Ok("Role::InstanceServer")
      [] OTHER ->
            LET all == Join([i \in 1..Len(RoleIter) |->
                                Quoted(DisplayRole(RoleIter[i]))], ", ")
            IN  Err("Unknown role: " \o s \o ". Expected one of " \o all)

RoleFromStr(s) ==
    CASE s = "Admin" -> Ok("Role::Admin")
      [] s = "WhitelistAdmin" -> Ok("Role::WhitelistAdmin")
      [] s = "MarketingAdmin" -> Ok("Role::MarketingAdmin")
      [] s = "ViewProject" -> Ok("Role::ViewProject")
      [] s = "DeleteProject" -> Ok("Role::DeleteProject")
      [] s = "CreateProject" -> Ok("Role::CreateProject")
      [] s = "InstanceServer" -> Ok("Role::InstanceServer")
      [] OTHER ->
            LET all == Join([i \in 1..Len(RoleIter) |->
                                Quoted(DisplayRole(RoleIter[i]))], ", ")
            IN  Err("Unknown role: " \o s \o ". Expected one of " \o all)

(* ProjectAction::iter(), in declaration order *)
ProjectActionIter ==
    <<"ProjectAction::ViewComponent", "ProjectAction::CreateComponent",
      "ProjectAction::UpdateComponent", "ProjectAction::DeleteComponent",
      "ProjectAction::ViewInstance", "ProjectAction::CreateInstance",
      "ProjectAction::UpdateInstance", "ProjectAction::DeleteInstance",
      "ProjectAction::ViewProjectGrants", "ProjectAction::CreateProjectGrants",
      "ProjectAction::DeleteProjectGrants">>

DisplayProjectAction(self) ==
    CASE self = "ProjectAction::ViewComponent" -> "ViewComponent"
      [] self = "ProjectAction::CreateComponent" -> "CreateComponent"
      [] self = "ProjectAction::UpdateComponent" -> "UpdateComponent"
      [] self = "ProjectAction::DeleteComponent" -> "DeleteComponent"
      [] self = "ProjectAction::ViewInstance" -> "ViewInstance"
      [] self = "ProjectAction::CreateInstance" -> "CreateInstance"
      [] self = "ProjectAction::UpdateInstance" -> "UpdateInstance"
      [] self = "ProjectAction::DeleteInstance" -> "DeleteInstance"
      [] self = "ProjectAction::ViewProjectGrants" -> "ViewProjectGrants"
      [] self = "ProjectAction::CreateProjectGrants" -> "CreateProjectGrants"
      [] self = "ProjectAction::DeleteProjectGrants" -> "DeleteProjectGrants"

ProjectActionFromStr(s) ==
    CASE s = "ViewComponent" -> Ok("ProjectAction::ViewComponent")
      [] s = "CreateComponent" -> Ok("ProjectAction::CreateComponent")
      [] s = "UpdateComponent" -> Ok("ProjectAction::UpdateComponent")
      [] s = "DeleteComponent" -> Ok("ProjectAction::DeleteComponent")
      [] s = "ViewInstance" -> Ok("ProjectAction::ViewInstance")
      [] s = "CreateInstance" -> Ok("ProjectAction::CreateInstance")
      [] s = "UpdateInstance" -> Ok("ProjectAction::UpdateInstance")
      [] s = "DeleteInstance" -> Ok("ProjectAction::DeleteInstance")
      [] s = "ViewProjectGrants" -> Ok("ProjectAction::ViewProjectGrants")
      [] s = "CreateProjectGrants" -> Ok("ProjectAction::CreateProjectGrants")
      [] s = "DeleteProjectGrants" -> Ok("ProjectAction::DeleteProjectGrants")
      [] OTHER ->
            LET all == Join([i \in 1..Len(ProjectActionIter) |->
                                Quoted(DisplayProjectAction(ProjectActionIter[i]))], ", ")
            IN  Err("Unknown action: " \o s \o ". Expected one of " \o all)

(* The strings handed to the parsers: every displayed name, the same      *)
(* names in other cases or with a blank around them, names of other       *)
(* enumerations, and the texts.                                            *)
ParseInputs ==
    {DisplayFormat(FormatIter[i]) : i \in 1..Len(FormatIter)}
        \cup {DisplayRole(RoleIter[i]) : i \in 1..Len(RoleIter)}
        \cup {DisplayProjectAction(ProjectActionIter[i]) : i \in 1..Len(ProjectActionIter)}
        \cup {"JSON", "Json", "YAML", "Yaml", "yml", "json ", " yaml", "jso",
              "admin", "ADMIN", "Admin ", "whitelistAdmin", "viewProject",
              "Role::Admin", "Administrator", "InstanceServe",
              "viewcomponent", "VIEWCOMPONENT", "ViewTemplate", "ViewWorker",
              "DeleteProjectGrant", "ProjectAction::ViewComponent"}
        \cup Texts

----------------------------------------------------------------------------
(* model.rs: ProjectId, ProjectRef, ProjectRefArgs *)

ProjectId(uuid) == [uuid |-> uuid]

ProjectRefId(id) == [tag |-> "Id", id |-> id]
ProjectRefName(name) == [tag |-> "Name", name |-> name]
ProjectRefDefault == [tag |-> "Default"]

ProjectRefs ==
    {ProjectRefId(ProjectId(u)) : u \in Uuids}
        \cup {ProjectRefName(n) : n \in Texts}
        \cup {ProjectRefDefault}

ProjectRefArgs(project_id, project_name) ==
    [project_id |-> project_id, project_name |-> project_name]

(* ProjectRefFromArgs taking an empty project name for no name. *)
ProjectRefFromArgsEmptyIsDefault(value) ==
    IF value.project_id # None
    THEN ProjectRefId(ProjectId(value.project_id[1]))
    ELSE IF value.project_name # None /\ value.project_name[1] # ""
         THEN ProjectRefName(value.project_name[1])
         ELSE ProjectRefDefault

(* impl From<&ProjectRefArgs> for ProjectRef *)
ProjectRefFromArgs(value) ==
    IF value.project_id # None
    THEN ProjectRefId(ProjectId(value.project_id[1]))
    ELSE IF value.project_name # None
         THEN ProjectRefName(value.project_name[1])
         ELSE ProjectRefDefault

(* impl From<&ProjectRef> for ProjectRefArgs *)
ArgsFromProjectRef(value) ==
    CASE value.tag = "Id" -> ProjectRefArgs(Some(value.id.uuid), None)
      [] value.tag = "Name" -> ProjectRefArgs(None, Some(value.name))
      [] value.tag = "Default" -> ProjectRefArgs(None, None)

----------------------------------------------------------------------------
(* model.rs: RawComponentId, ComponentName, ComponentIdOrName,            *)
(* ComponentIdOrNameArgs                                                   *)

RawComponentId(uuid) == [uuid |-> uuid]

ComponentName(name) == [name |-> name]

ComponentIdOrNameId(id) == [tag |-> "Id", id |-> id]
ComponentIdOrNameName(name, pr) == [tag |-> "Name", name |-> name, pr |-> pr]

ComponentIdOrNames ==
    {ComponentIdOrNameId(RawComponentId(u)) : u \in Uuids}
        \cup {ComponentIdOrNameName(ComponentName(n), pr) :
                 n \in Texts, pr \in ProjectRefs}

ComponentIdOrNameArgs(component_id, component_name, project_id, project_name) ==
    [component_id |-> component_id, component_name |-> component_name,
     project_id |-> project_id, project_name |-> project_name]

(* impl From<&ComponentIdOrNameArgs> for ComponentIdOrName; the unwrap of *)
(* an absent component_name panics.                                        *)
ComponentIdOrNameFromArgs(value) ==
    LET pr == IF value.project_id # None
              THEN ProjectRefId(ProjectId(value.project_id[1]))
              ELSE IF value.project_name # None
                   THEN ProjectRefName(value.project_name[1])
                   ELSE ProjectRefDefault
    IN  IF value.component_id # None
        THEN ComponentIdOrNameId(RawComponentId(value.component_id[1]))
        ELSE IF value.component_name # None
             THEN ComponentIdOrNameName(ComponentName(value.component_name[1]), pr)
             ELSE [tag |-> "panic"]

(* ArgsFromComponentIdOrName with the Name arm keeping the Id arm's       *)
(* `component_name: None`.                                                 *)
ArgsFromComponentIdOrNameNoName(value) ==
    CASE value.tag = "Id" ->
            ComponentIdOrNameArgs(Some(value.id.uuid), None, None, None)
      [] value.tag = "Name" ->
            LET flags ==
                    CASE value.pr.tag = "Id" -> <<Some(value.pr.id.uuid), None>>
                      [] value.pr.tag = "Name" -> <<None, Some(value.pr.name)>>
                      [] value.pr.tag = "Default" -> <<None, None>>
            IN  ComponentIdOrNameArgs(None, None, flags[1], flags[2])

(* impl From<&ComponentIdOrName> for ComponentIdOrNameArgs *)
ArgsFromComponentIdOrName(value) ==
    CASE value.tag = "Id" ->
            ComponentIdOrNameArgs(Some(value.id.uuid), None, None, None)
      [] value.tag = "Name" ->
            LET flags ==
                    CASE value.pr.tag = "Id" -> <<Some(value.pr.id.uuid), None>>
                      [] value.pr.tag = "Name" -> <<None, Some(value.pr.name)>>
                      [] value.pr.tag = "Default" -> <<None, None>>
            IN  ComponentIdOrNameArgs(None, Some(value.name.name),
                                      flags[1], flags[2])

----------------------------------------------------------------------------
(* clients.rs: token_header, CloudAuthentication *)

TokenSecret(value) == [value |-> value]

UnsafeToken(account, secret) ==
    [data |-> [account_id |-> account], secret |-> TokenSecret(secret)]

AccountId(id) == [id |-> id]

(* token_header with the scheme capitalised. *)
token_headerCapitalised(secret) == "Bearer " \o secret.value

token_header(secret) == "bearer " \o secret.value

header(self) == token_header(self.secret)

account_id(self) == AccountId(self.data.account_id)

CloudAuthentications == {UnsafeToken(a, s) : a \in Texts, s \in Texts}

(* clients.rs: action_cli_to_api.  Its arms name ProjectAction variants;  *)
(* the result is the golem_cloud_client::model::ProjectAction of the arm. *)
(* The match has no wildcard arm: NoArm is what is left for a value that  *)
(* none of the arms names.                                                 *)
ApiProjectAction(name) == "golem_cloud_client::model::ProjectAction::" \o name

NoArm == "no arm"

action_cli_to_api(action) ==
    CASE action = "ProjectAction::ViewTemplate" -> ApiProjectAction("ViewTemplate")
      [] action = "ProjectAction::CreateTemplate" -> ApiProjectAction("CreateTemplate")
      [] action = "ProjectAction::UpdateTemplate" -> ApiProjectAction("UpdateTemplate")
      [] action = "ProjectAction::DeleteTemplate" -> ApiProjectAction("DeleteTemplate")
      [] action = "ProjectAction::ViewWorker" -> ApiProjectAction("ViewWorker")
      [] action = "ProjectAction::CreateWorker" -> ApiProjectAction("CreateWorker")
      [] action = "ProjectAction::UpdateWorker" -> ApiProjectAction("UpdateWorker")
      [] action = "ProjectAction::DeleteWorker" -> ApiProjectAction("DeleteWorker")
      [] action = "ProjectAction::ViewProjectGrants" ->
            ApiProjectAction("ViewProjectGrants")
      [] action = "ProjectAction::CreateProjectGrants" ->
            ApiProjectAction("CreateProjectGrants")
      [] action = "ProjectAction::DeleteProjectGrants" ->
            ApiProjectAction("DeleteProjectGrants")
      [] OTHER -> NoArm

----------------------------------------------------------------------------
(* gateway/deployment.rs: DeploymentSubcommand, and what handle builds *)

DefinitionIds == {"def-1", "def-2"}
Hosts == {"api.example.com"}
Subdomains == {"tenant1"}
Sites == {"tenant1.api.example.com"}

Get(project_ref, definition_id) ==
    [tag |-> "Get", project_ref |-> project_ref, definition_id |-> definition_id]

Add(project_ref, definition_id, host, subdomain) ==
    [tag |-> "Add", project_ref |-> project_ref, definition_id |-> definition_id,
     host |-> host, subdomain |-> subdomain]

Delete(project_ref, site, definition_id) ==
    [tag |-> "Delete", project_ref |-> project_ref, site |-> site,
     definition_id |-> definition_id]

DeploymentSubcommands ==
    {Get(r, d) : r \in ProjectRefs, d \in DefinitionIds}
        \cup {Add(r, d, h, sd) : r \in ProjectRefs, d \in DefinitionIds,
                                 h \in Hosts, sd \in Subdomains}
        \cup {Delete(r, st, d) : r \in ProjectRefs, st \in Sites, d \in DefinitionIds}

ApiSite(host, subdomain) == [host |-> host, subdomain |-> subdomain]

(* ApiDeployment with the site's host and subdomain exchanged. *)
ApiDeploymentSiteSwapped(id, definition_id, host, subdomain) ==
    [project_id |-> id.uuid,
     api_definition_id |-> definition_id,
     site |-> ApiSite(subdomain, host)]

(* The ApiDeployment that the Add branch builds from the resolved id and  *)
(* its own arguments.                                                      *)
ApiDeployment(id, definition_id, host, subdomain) ==
    [project_id |-> id.uuid,
     api_definition_id |-> definition_id,
     site |-> ApiSite(host, subdomain)]

----------------------------------------------------------------------------
(* The collaborators of handle whose code is in other files of the        *)
(* repository: ProjectClient::resolve_id_or_default and the conversion of *)
(* the deployment client's errors.  They follow the documented contract   *)
(* of the resolver and the message table of the error normalizer.         *)

(* What the projects backend answers to the resolver's lookup. *)
Found(matches) == [kind |-> "found", matches |-> matches]
NoMatch(message) == [kind |-> "none", message |-> message]
Failed(error) == [kind |-> "failed", error |-> error]

LookupResponses ==
    {Found(ms) : ms \in UNION {[1..n -> Uuids] : n \in 1..2}}
        \cup {NoMatch(m) : m \in Texts}
        \cup {Failed(e) : e \in ProjectErrors}

(* The results resolve_id_or_default may return: an explicit id without a *)
(* lookup; for a name or the default, one lookup, whose failure is        *)
(* normalized; no match is the not-found error; which of several matches  *)
(* is taken is left open.                                                  *)
ResolveIdOrDefault(project_ref, response) ==
    IF project_ref.tag = "Id"
    THEN {Ok(project_ref.id)}
    ELSE CASE response.kind = "found" ->
                {Ok(ProjectId(response.matches[i])) : i \in 1..Len(response.matches)}
           [] response.kind = "none" ->
                {Err(GolemError("Not found: " \o response.message))}
           [] response.kind = "failed" ->
                {Err(FromProjectError(response.error))}

DeploymentErrors ==
    TransportErrors
        \cup {Status404(m) : m \in Texts}
        \cup {Status400(es) : es \in ErrorLists}
        \cup {Status403(e) : e \in Texts}
        \cup {Status500(e) : e \in Texts}

FromDeploymentError(value) ==
    CASE value.tag = "RequestFailure" ->
            GolemError("Unexpected request failure: " \o value.err)
      [] value.tag = "InvalidHeaderValue" ->
            GolemError("Unexpected invalid header value: " \o value.err)
      [] value.tag = "UnexpectedStatus" ->
            GolemError("Unexpected status: " \o value.sc)
      [] value.tag = "Status404" ->
            GolemError("Not found: " \o value.message)
      [] value.tag = "Status400" ->
            LET msg == Join(value.errors, ", ")
            IN  GolemError("Invalid API call: " \o msg)
      [] value.tag = "Status403" ->
            GolemError("Limit Exceeded: " \o value.error)
      [] value.tag = "Status500" ->
            GolemError("Internal server error: " \o value.error)

(* What a deployment client operation answers. *)
ClientValues == {"deployment-1", "deployment-2"}

ClientResults == {Ok(v) : v \in ClientValues} \cup {Err(e) : e \in DeploymentErrors}

----------------------------------------------------------------------------
(* The state after construction: the authentication context is built from *)
(* a credential, nothing has been applied, handle has not been invoked.   *)

Init ==
    /\ auth \in CloudAuthentications
    /\ last = [op |-> "none"]
    /\ pc = "idle"
    /\ command = None
    /\ resolved = None
    /\ calls = <<>>
    /\ outcome = None

(* An application of a library operation: `last` keeps its input and result. *)
Applied(op, in, out) == [op |-> op, in |-> in, out |-> out]

ConvertAccountError ==
    /\ \E value \in AccountErrors :
          last' = Applied("From<AccountError>", value, FromAccountError(value))
    /\ UNCHANGED <<auth, handlerVars>>

ConvertTokenError ==
    /\ \E value \in TokenErrors :
          last' = Applied("From<TokenError>", value, FromTokenError(value))
    /\ UNCHANGED <<auth, handlerVars>>

ConvertComponentError ==
    /\ \E value \in ComponentErrors :
          last' = Applied("From<ComponentError>", value, FromComponentError(value))
    /\ UNCHANGED <<auth, handlerVars>>

ConvertLoginError ==
    /\ \E value \in LoginErrors :
          last' = Applied("From<LoginError>", value, FromLoginError(value))
    /\ UNCHANGED <<auth, handlerVars>>

ConvertProjectError ==
    /\ \E value \in ProjectErrors :
          last' = Applied("From<ProjectError>", value, FromProjectError(value))
    /\ UNCHANGED <<auth, handlerVars>>

ConvertGrantError ==
    /\ \E value \in GrantErrors :
          last' = Applied("From<GrantError>", value, FromGrantError(value))
    /\ UNCHANGED <<auth, handlerVars>>

ConvertProjectPolicyError ==
    /\ \E value \in ProjectPolicyErrors :
          last' = Applied("From<ProjectPolicyError>", value, FromProjectPolicyError(value))
    /\ UNCHANGED <<auth, handlerVars>>

ConvertProjectGrantError ==
    /\ \E value \in ProjectGrantErrors :
          last' = Applied("From<ProjectGrantError>", value, FromProjectGrantError(value))
    /\ UNCHANGED <<auth, handlerVars>>

CallGolemResultErr ==
    /\ \E s \in Texts :
          last' = Applied("GolemResult::err", s, GolemResultErr(s))
    /\ UNCHANGED <<auth, handlerVars>>

ParseFormat ==
    /\ \E s \in ParseInputs :
          last' = Applied("Format::from_str", s, FormatFromStr(s))
    /\ UNCHANGED <<auth, handlerVars>>

ParseRole ==
    /\ \E s \in ParseInputs :
          last' = Applied("Role::from_str", s, RoleFromStr(s))
    /\ UNCHANGED <<auth, handlerVars>>

ParseProjectAction ==
    /\ \E s \in ParseInputs :
          last' = Applied("ProjectAction::from_str", s, ProjectActionFromStr(s))
    /\ UNCHANGED <<auth, handlerVars>>

(* A ProjectRef taken to its argument record and back, as                 *)
(* update_from_arg_matches does around the update; `out` keeps both.      *)
ConvertProjectRef ==
    /\ \E r \in ProjectRefs :
          LET args == ArgsFromProjectRef(r)
          IN  last' = Applied("ProjectRef", r,
                              [args |-> args, back |-> ProjectRefFromArgs(args)])
    /\ UNCHANGED <<auth, handlerVars>>

(* A ComponentIdOrName taken to its argument record and back, as its     *)
(* update_from_arg_matches does around the update.                        *)
ConvertComponentIdOrName ==
    /\ \E c \in ComponentIdOrNames :
          LET args == ArgsFromComponentIdOrName(c)
          IN  last' = Applied("ComponentIdOrName", c,
                              [args |-> args, back |-> ComponentIdOrNameFromArgs(args)])
    /\ UNCHANGED <<auth, handlerVars>>

(* A value of each enumeration displayed, and the text parsed again. *)
ShowFormat ==
    /\ \E v \in {FormatIter[i] : i \in 1..Len(FormatIter)} :
          LET text == DisplayFormat(v)
          IN  last' = Applied("Format::to_string", v,
                              [text |-> text, parsed |-> FormatFromStr(text)])
    /\ UNCHANGED <<auth, handlerVars>>

ShowRole ==
    /\ \E v \in {RoleIter[i] : i \in 1..Len(RoleIter)} :
          LET text == DisplayRole(v)
          IN  last' = Applied("Role::to_string", v,
                              [text |-> text, parsed |-> RoleFromStr(text)])
    /\ UNCHANGED <<auth, handlerVars>>

ShowProjectAction ==
    /\ \E v \in {ProjectActionIter[i] : i \in 1..Len(ProjectActionIter)} :
          LET text == DisplayProjectAction(v)
          IN  last' = Applied("ProjectAction::to_string", v,
                              [text |-> text, parsed |-> ProjectActionFromStr(text)])
    /\ UNCHANGED <<auth, handlerVars>>

(* action_cli_to_api applied to a value of the ProjectAction of model.rs. *)
CallActionCliToApi ==
    /\ \E action \in {ProjectActionIter[i] : i \in 1..Len(ProjectActionIter)} :
          last' = Applied("action_cli_to_api", action, action_cli_to_api(action))
    /\ UNCHANGED <<auth, handlerVars>>

CallHeader ==
    /\ last' = Applied("header", auth, header(auth))
    /\ UNCHANGED <<auth, handlerVars>>

CallAccountId ==
    /\ last' = Applied("account_id", auth, account_id(auth))
    /\ UNCHANGED <<auth, handlerVars>>

Next ==
    \/ ConvertAccountError
    \/ ConvertTokenError
    \/ ConvertComponentError
    \/ ConvertLoginError
    \/ ConvertProjectError
    \/ ConvertGrantError
    \/ ConvertProjectPolicyError
    \/ ConvertProjectGrantError
    \/ CallGolemResultErr
    \/ ParseFormat
    \/ ParseRole
    \/ ParseProjectAction
    \/ ConvertProjectRef
    \/ ConvertComponentIdOrName
    \/ ShowFormat
    \/ ShowRole
    \/ ShowProjectAction
    \/ CallActionCliToApi
    \/ CallHeader
    \/ CallAccountId

Spec == Init /\ [][Next]_vars

----------------------------------------------------------------------------
(* gateway/deployment.rs: DeploymentHandlerLive::handle, one step per     *)
(* await.  `calls` records each awaited call with its arguments and       *)
(* result; the resolver's record also keeps the lookup answer it saw.     *)

Invoke ==
    /\ pc = "idle"
    /\ \E cmd \in DeploymentSubcommands : command' = cmd
    /\ pc' = "resolve"
    /\ UNCHANGED <<resolved, calls, outcome, libVars>>

(* self.projects.resolve_id_or_default(project_ref).await? *)
AwaitResolve(branch) ==
    /\ pc = "resolve"
    /\ command.tag = branch
    /\ \E response \in LookupResponses :
          \E r \in ResolveIdOrDefault(command.project_ref, response) :
             /\ calls' = Append(calls,
                    [op |-> "resolve_id_or_default",
                     args |-> <<command.project_ref>>,
                     lookup |-> IF command.project_ref.tag = "Id" THEN None
                                ELSE Some(response),
                     ret |-> r])
             /\ IF r.ok
                THEN /\ resolved' = Some(r.val)
                     /\ pc' = "call"
                     /\ outcome' = outcome
                ELSE /\ outcome' = Some(Err(r.err))
                     /\ pc' = "done"
                     /\ resolved' = resolved
    /\ UNCHANGED <<command, libVars>>

(* self.client.<op>(args).await?, then Ok(GolemResult::Ok(Box::new(res))) *)
AwaitClient(op, args) ==
    /\ \E ret \in ClientResults :
          /\ calls' = Append(calls, [op |-> op, args |-> args, ret |-> ret])
          /\ outcome' = Some(IF ret.ok
                             THEN Ok(GolemResultOk(ret.val))
                             ELSE Err(FromDeploymentError(ret.err)))
    /\ pc' = "done"
    /\ UNCHANGED <<command, resolved, libVars>>

(* The Delete branch going on to the client with a nil id when the        *)
(* resolution failed, instead of returning the error.                     *)
DeleteResolveUnchecked ==
    /\ pc = "resolve"
    /\ command.tag = "Delete"
    /\ \E response \in LookupResponses :
          \E r \in ResolveIdOrDefault(command.project_ref, response) :
             /\ calls' = Append(calls,
                    [op |-> "resolve_id_or_default",
                     args |-> <<command.project_ref>>,
                     lookup |-> IF command.project_ref.tag = "Id" THEN None
                                ELSE Some(response),
                     ret |-> r])
             /\ resolved' = Some(IF r.ok THEN r.val ELSE ProjectId(0))
             /\ pc' = "call"
             /\ outcome' = outcome
    /\ UNCHANGED <<command, libVars>>

(* The Get branch calling the client again after a failed call. *)
GetCallRetrying ==
    /\ pc = "call"
    /\ command.tag = "Get"
    /\ Len(calls) < 3
    /\ \E ret \in ClientResults :
          /\ calls' = Append(calls,
                 [op |-> "get", args |-> <<resolved[1], command.definition_id>>,
                  ret |-> ret])
          /\ outcome' = Some(IF ret.ok
                             THEN Ok(GolemResultOk(ret.val))
                             ELSE Err(FromDeploymentError(ret.err)))
          /\ pc' = IF ret.ok THEN "done" ELSE "call"
    /\ UNCHANGED <<command, resolved, libVars>>

GetResolve == AwaitResolve("Get")

GetCall ==
    /\ pc = "call"
    /\ command.tag = "Get"
    /\ AwaitClient("get", <<resolved[1], command.definition_id>>)

AddResolve == AwaitResolve("Add")

AddCall ==
    /\ pc = "call"
    /\ command.tag = "Add"
    /\ LET deployment == ApiDeployment(resolved[1], command.definition_id,
                                       command.host, command.subdomain)
       IN  AwaitClient("update", <<deployment>>)

DeleteResolve == AwaitResolve("Delete")

DeleteCall ==
    /\ pc = "call"
    /\ command.tag = "Delete"
    /\ AwaitClient("delete", <<resolved[1], command.definition_id, command.site>>)

NextHandle ==
    \/ Invoke
    \/ GetResolve
    \/ GetCall
    \/ AddResolve
    \/ AddCall
    \/ DeleteResolve
    \/ DeleteCall

SpecHandle == Init /\ [][NextHandle]_vars

----------------------------------------------------------------------------
(* Properties of the error normalizer, the parsers, the conversions and   *)
(* the authentication context, checked under Spec.                        *)

Conversions ==
    {"From<AccountError>", "From<TokenError>", "From<ComponentError>",
     "From<LoginError>", "From<ProjectError>", "From<GrantError>",
     "From<ProjectPolicyError>", "From<ProjectGrantError>"}

(* C1: in every family that has a not-found (404) variant, the variant    *)
(* carrying the backend text `message` is converted to exactly            *)
(* "Not found: {message}".                                                 *)
NotFoundMessageUniform ==
    (last.op \in Conversions /\ last.in.tag = "Status404")
        => last.out = GolemError("Not found: " \o last.in.message)

(* The rows of the message table that the families share.  Login's 403,   *)
(* 500 and 401, the component's 404, 409 and 504 are rows of their own.   *)
SharedRow(op, tag) ==
    \/ tag \in {"RequestFailure", "InvalidHeaderValue", "UnexpectedStatus"}
    \/ /\ op # "From<LoginError>"
       /\ tag \in {"Status400", "Status403", "Status500"}

RECURSIVE JoinedWithCommas(_)
JoinedWithCommas(errors) ==
    IF errors = <<>> THEN ""
    ELSE LET n == Len(errors)
         IN  IF n = 1 THEN errors[1]
             ELSE JoinedWithCommas(SubSeq(errors, 1, n - 1)) \o ", " \o errors[n]

TableMessage(value) ==
    CASE value.tag = "RequestFailure" -> "Unexpected request failure: " \o value.err
      [] value.tag = "InvalidHeaderValue" -> "Unexpected invalid header value: " \o value.err
      [] value.tag = "UnexpectedStatus" -> "Unexpected status: " \o value.sc
      [] value.tag = "Status400" -> "Invalid API call: " \o JoinedWithCommas(value.errors)
      [] value.tag = "Status403" -> "Limit Exceeded: " \o value.error
      [] value.tag = "Status500" -> "Internal server error: " \o value.error

(* C5: every variant of every family's error set is converted to a        *)
(* GolemError holding a string, and a variant of one of the six shared    *)
(* conditions (transport failure, malformed header, unmapped status, bad  *)
(* request, forbidden/limit, internal error) to the table's message for   *)
(* it, with its fields interpolated.                                       *)
SharedTableMessages ==
    last.op \in Conversions
        => /\ DOMAIN last.out = {"message"}
           /\ last.out.message \in STRING
           /\ SharedRow(last.op, last.in.tag)
                 => last.out = GolemError(TableMessage(last.in))

(* A list of two field errors, the first of them empty, joined and        *)
(* prefixed for the project-grant family.                                  *)
SharedTableMessagesWitness ==
    /\ last.op = "From<ProjectGrantError>"
    /\ last.in = Status400(<<"", "t1">>)
    /\ last.out = GolemError("Invalid API call: , t1")

(* C6: the message of a GolemError is never empty, whether it comes from  *)
(* the conversion of a backend error (its texts or error list may be      *)
(* empty) or from GolemResult::err.                                        *)
MessageNeverEmpty ==
    /\ last.op \in Conversions => last.out.message # ""
    /\ last.op = "GolemResult::err" => last.out.err.message # ""

(* C7: a ProjectRef taken to ProjectRefArgs and back is the same          *)
(* ProjectRef, and taking the result through the conversions again gives  *)
(* the same argument record and the same ProjectRef.                      *)
ProjectRefRoundTrip ==
    last.op = "ProjectRef"
        => /\ last.out.back = last.in
           /\ ArgsFromProjectRef(last.out.back) = last.out.args
           /\ ProjectRefFromArgs(ArgsFromProjectRef(last.out.back)) = last.out.back

ProjectRefRoundTripWitness ==
    /\ last.op = "ProjectRef"
    /\ last.in = ProjectRefName("")
    /\ last.out.args = [project_id |-> <<>>, project_name |-> <<"">>]
    /\ last.out.back = [tag |-> "Name", name |-> ""]

RoleNames ==
    {"Admin", "WhitelistAdmin", "MarketingAdmin", "ViewProject",
     "DeleteProject", "CreateProject", "InstanceServer"}

ProjectActionNames ==
    {"ViewComponent", "CreateComponent", "UpdateComponent", "DeleteComponent",
     "ViewInstance", "CreateInstance", "UpdateInstance", "DeleteInstance",
     "ViewProjectGrants", "CreateProjectGrants", "DeleteProjectGrants"}

AllRoleNamesListed ==
    "\"Admin\", \"WhitelistAdmin\", \"MarketingAdmin\", \"ViewProject\", "
        \o "\"DeleteProject\", \"CreateProject\", \"InstanceServer\""

AllProjectActionNamesListed ==
    "\"ViewComponent\", \"CreateComponent\", \"UpdateComponent\", "
        \o "\"DeleteComponent\", \"ViewInstance\", \"CreateInstance\", "
        \o "\"UpdateInstance\", \"DeleteInstance\", \"ViewProjectGrants\", "
        \o "\"CreateProjectGrants\", \"DeleteProjectGrants\""

(* C8: Role and ProjectAction parsing accept exactly the declared variant *)
(* names, in their exact case, each giving the variant of that name; any  *)
(* other string is a failure whose message lists all seven role names,    *)
(* or all eleven action names.                                             *)
EnumParsingExact ==
    /\ last.op = "Role::from_str"
          => IF last.in \in RoleNames
             THEN last.out = Ok("Role::" \o last.in)
             ELSE last.out = Err("Unknown role: " \o last.in
                                    \o ". Expected one of " \o AllRoleNamesListed)
    /\ last.op = "ProjectAction::from_str"
          => IF last.in \in ProjectActionNames
             THEN last.out = Ok("ProjectAction::" \o last.in)
             ELSE last.out = Err("Unknown action: " \o last.in
                                    \o ". Expected one of " \o AllProjectActionNamesListed)

EnumParsingExactWitness ==
    /\ last.op = "Role::from_str"
    /\ last.in = "admin"
    /\ ~last.out.ok

(* C9: Format parsing accepts exactly "json" (Json) and "yaml" (Yaml);    *)
(* any other string, "JSON" among them, is a failure whose message lists  *)
(* the two options "json", "yaml".                                         *)
FormatParsingExact ==
    last.op = "Format::from_str"
        => CASE last.in = "json" -> last.out = Ok("Format::Json")
             [] last.in = "yaml" -> last.out = Ok("Format::Yaml")
             [] OTHER -> last.out = Err("Unknown format: " \o last.in
                                  \o ". Expected one of \"json\", \"yaml\"")

FormatParsingExactWitness ==
    /\ last.op = "Format::from_str"
    /\ last.in = "JSON"
    /\ last.out = Err("Unknown format: JSON. Expected one of \"json\", \"yaml\"")

(* C10: no step changes the authentication context, every header() call  *)
(* returns "bearer " followed by the credential's secret and every        *)
(* account_id() call returns the AccountId of the credential's account.   *)
AuthenticationContextStable ==
    [][/\ auth' = auth
       /\ last'.op = "header" => last'.out = "bearer " \o auth.secret.value
       /\ last'.op = "account_id" => last'.out = [id |-> auth.data.account_id]]_vars

AuthenticationContextWitness ==
    /\ last.op = "header"
    /\ auth.secret.value = "t1"
    /\ last.out = "bearer t1"

----------------------------------------------------------------------------
(* Properties of DeploymentHandlerLive::handle, checked under SpecHandle. *)

ClientOps == {"get", "update", "delete"}

ClientOpOf(tag) ==
    CASE tag = "Get" -> "get"
      [] tag = "Add" -> "update"
      [] tag = "Delete" -> "delete"

(* C2: in every branch, when the resolution of the project reference     *)
(* fails, handle returns that error and no deployment client operation   *)
(* is invoked; a Delete by a name that matches no project returns the    *)
(* not-found error and performs no delete.                               *)
ResolutionFailureShortCircuits ==
    (Len(calls) >= 1 /\ ~calls[1].ret.ok)
        => /\ calls[1].op = "resolve_id_or_default"
           /\ pc = "done"
           /\ outcome = Some(Err(calls[1].ret.err))
           /\ \A i \in 1..Len(calls) : calls[i].op \notin ClientOps
           /\ (/\ command.tag = "Delete"
               /\ command.project_ref.tag = "Name"
               /\ calls[1].lookup # None
               /\ calls[1].lookup[1].kind = "none")
                 => outcome = Some(Err(GolemError(
                        "Not found: " \o calls[1].lookup[1].message)))

(* A Delete by name whose lookup matched nothing has returned. *)
ResolutionFailureWitness ==
    /\ pc = "done"
    /\ command.tag = "Delete"
    /\ command.project_ref = ProjectRefName("t1")
    /\ calls = <<[op |-> "resolve_id_or_default",
                  args |-> <<ProjectRefName("t1")>>,
                  lookup |-> Some(NoMatch("t1")),
                  ret |-> Err(GolemError("Not found: t1"))]>>
    /\ outcome = Some(Err(GolemError("Not found: t1")))

(* C3: an invocation of handle awaits at most one resolution and at most  *)
(* one client call; the client call comes second, after a resolution     *)
(* that succeeded, and is the operation of the subcommand; when handle   *)
(* has returned it has made either the failed resolution alone or the    *)
(* resolution and exactly one client call, whatever the client answered. *)
OneResolutionThenOneCall ==
    /\ Len(calls) <= 2
    /\ pc \in {"idle", "resolve"} => calls = <<>>
    /\ Len(calls) >= 1 => calls[1].op = "resolve_id_or_default"
    /\ pc = "call" => Len(calls) = 1 /\ calls[1].ret.ok
    /\ Len(calls) = 2 => /\ calls[1].ret.ok
                         /\ calls[2].op = ClientOpOf(command.tag)
                         /\ pc = "done"
    /\ pc = "done" => \/ Len(calls) = 1 /\ ~calls[1].ret.ok
                      \/ Len(calls) = 2

(* handle has returned after a client call that failed, without another. *)
OneResolutionThenOneCallWitness ==
    /\ pc = "done"
    /\ command.tag = "Get"
    /\ Len(calls) = 2
    /\ calls[1].ret.ok
    /\ calls[2].op = "get"
    /\ ~calls[2].ret.ok
    /\ ~outcome[1].ok

(* C4: an Add whose reference resolved to P calls update with exactly    *)
(* {project_id: P, api_definition_id: definition_id, site: {host,        *)
(* subdomain}}; when update succeeds the outcome is GolemResult::Ok of   *)
(* the value the client returned, and when it fails with a bad request   *)
(* carrying errors E the outcome is the error "Invalid API call: "       *)
(* followed by E joined with ", ".                                        *)
AddBuildsDescriptorAndWraps ==
    (pc = "done" /\ command.tag = "Add" /\ calls[1].ret.ok)
        => /\ Len(calls) = 2
           /\ calls[2].op = "update"
           /\ calls[2].args =
                 <<[project_id |-> calls[1].ret.val.uuid,
                    api_definition_id |-> command.definition_id,
                    site |-> [host |-> command.host,
                              subdomain |-> command.subdomain]]>>
           /\ calls[2].ret.ok
                 => outcome = Some(Ok([variant |-> "Ok",
                                       payload |-> calls[2].ret.val]))
           /\ (~calls[2].ret.ok /\ calls[2].ret.err.tag = "Status400")
                 => outcome = Some(Err(GolemError(
                        "Invalid API call: "
                            \o JoinedWithCommas(calls[2].ret.err.errors))))

(* The default project resolved to 1 and update answered a bad request. *)
AddBadRequestWitness ==
    /\ pc = "done"
    /\ command = Add(ProjectRefDefault, "def-1", "api.example.com", "tenant1")
    /\ calls[1].ret = Ok(ProjectId(1))
    /\ calls[2].op = "update"
    /\ calls[2].args = <<[project_id |-> 1, api_definition_id |-> "def-1",
                          site |-> [host |-> "api.example.com",
                                    subdomain |-> "tenant1"]]>>
    /\ calls[2].ret = Err(Status400(<<"t1">>))
    /\ outcome = Some(Err(GolemError("Invalid API call: t1")))

----------------------------------------------------------------------------
(* Properties of the resource-specific rows of the message table, checked *)
(* under Spec.                                                             *)

(* C11: a component already-exists (409) is converted to                  *)
(* "{component_id} already exists", a component gateway timeout (504) to  *)
(* "Gateway Timeout"; a login access-restricted (403) to one fixed        *)
(* message of several lines, whatever the backend sent; a login 500 to    *)
(* "Internal server error on Login: {error}" and a login 401 to           *)
(* "External service call error on Login: {error}".                       *)
ResourceSpecificMessages ==
    /\ (last.op = "From<ComponentError>" /\ last.in.tag = "Status409")
          => last.out = GolemError(last.in.component_id \o " already exists")
    /\ (last.op = "From<ComponentError>" /\ last.in.tag = "Status504")
          => last.out = GolemError("Gateway Timeout")
    /\ (last.op = "From<LoginError>" /\ last.in.tag = "Status403")
          => last.out = GolemError(
                "At the moment account creation is restricted.\n"
                    \o "None of your verified emails is whitelisted.\n"
                    \o "Please contact us to create an account.\n")
    /\ (last.op = "From<LoginError>" /\ last.in.tag = "Status500")
          => last.out = GolemError("Internal server error on Login: " \o last.in.error)
    /\ (last.op = "From<LoginError>" /\ last.in.tag = "Status401")
          => last.out = GolemError("External service call error on Login: "
                                      \o last.in.error)

(* A login 403 that carried a text of its own, converted. *)
ResourceSpecificMessagesWitness ==
    /\ last.op = "From<LoginError>"
    /\ last.in = Status403("t1")
    /\ last.out.message # ""
    /\ last.out = FromLoginError(Status403(""))

----------------------------------------------------------------------------
(* Properties of the argument records, checked under Spec. *)

(* C12: the argument record made from a ProjectRef has at most one of     *)
(* project_id and project_name set; the one made from a                   *)
(* ComponentIdOrName has exactly one of component_id and component_name   *)
(* set, and no project flag set when component_id is set.                 *)
FlagCombinationsValid ==
    /\ last.op = "ProjectRef"
          => ~(last.out.args.project_id # <<>> /\ last.out.args.project_name # <<>>)
    /\ last.op = "ComponentIdOrName"
          => /\ (last.out.args.component_id # <<>>)
                    # (last.out.args.component_name # <<>>)
             /\ last.out.args.component_id # <<>>
                    => /\ last.out.args.project_id = <<>>
                       /\ last.out.args.project_name = <<>>

(* A component named within a named project, taken to its flags. *)
FlagCombinationsWitness ==
    /\ last.op = "ComponentIdOrName"
    /\ last.in = [tag |-> "Name", name |-> [name |-> "t1"],
                  pr |-> [tag |-> "Name", name |-> "t1"]]
    /\ last.out.args = [component_id |-> <<>>, component_name |-> <<"t1">>,
                        project_id |-> <<>>, project_name |-> <<"t1">>]

----------------------------------------------------------------------------
(* Properties of action_cli_to_api and of Display against FromStr,        *)
(* checked under Spec.                                                     *)

(* C13: action_cli_to_api handles every variant that the ProjectAction of *)
(* model.rs declares and maps it to the API action of the same name (so   *)
(* no two of them to the same API action).                                 *)
ActionCliToApiPreservesNames ==
    last.op = "action_cli_to_api"
        => \E name \in ProjectActionNames :
              /\ last.in = "ProjectAction::" \o name
              /\ last.out = "golem_cloud_client::model::ProjectAction::" \o name

(* C14: for every value of Format, Role and ProjectAction the displayed   *)
(* text parses back to that value; a string that parses is the displayed  *)
(* text of what it parsed to; two different values never display alike.   *)
DisplayParseInverse ==
    /\ last.op \in {"Format::to_string", "Role::to_string", "ProjectAction::to_string"}
          => last.out.parsed = Ok(last.in)
    /\ (last.op = "Format::from_str" /\ last.out.ok)
          => DisplayFormat(last.out.val) = last.in
    /\ (last.op = "Role::from_str" /\ last.out.ok)
          => DisplayRole(last.out.val) = last.in
    /\ (last.op = "ProjectAction::from_str" /\ last.out.ok)
          => DisplayProjectAction(last.out.val) = last.in
    /\ \A i, j \in 1..Len(FormatIter) :
          i # j => DisplayFormat(FormatIter[i]) # DisplayFormat(FormatIter[j])
    /\ \A i, j \in 1..Len(RoleIter) :
          i # j => DisplayRole(RoleIter[i]) # DisplayRole(RoleIter[j])
    /\ \A i, j \in 1..Len(ProjectActionIter) :
          i # j => DisplayProjectAction(ProjectActionIter[i])
                      # DisplayProjectAction(ProjectActionIter[j])

(* MarketingAdmin displayed and parsed back. *)
DisplayParseInverseWitness ==
    /\ last.op = "Role::to_string"
    /\ last.in = "Role::MarketingAdmin"
    /\ last.out = [text |-> "MarketingAdmin",
                   parsed |-> [ok |-> TRUE, val |-> "Role::MarketingAdmin"]]

====
